---- MODULE Spec2Model ----
(***************************************************************************)
(* Model of the Themed Tags plugin (src/unnamed/part_000): the style      *)
(* blocks it injects into document.head, the inline properties it sets on *)
(* document.body, and the colour conversions that compute them.           *)
(*                                                                         *)
(* A JavaScript string is a sequence of one-character strings, so that    *)
(* includes/startsWith/endsWith/substring and the regular expressions are *)
(* computed character by character.  A JavaScript number is an exact      *)
(* fraction [n, d] in lowest terms with d > 0; d = 0 stands for NaN.      *)
(* IEEE rounding of intermediate results is not modelled.                  *)
(***************************************************************************)
EXTENDS Integers, Sequences, FiniteSets, TLC

\* ------------------------------------------------------------------ bounds
\* Style elements one run may append to document.head.
MaxBlocks == 3
\* Fractional digits kept when a non-integer number is printed.
FracDigits == 4

\* ----------------------------------------------------------------- strings
DigitChars == <<"0", "1", "2", "3", "4", "5", "6", "7", "8", "9">>
HexChars == <<"0", "1", "2", "3", "4", "5", "6", "7", "8", "9", "a", "b", "c", "d", "e", "f">>
HexCharsUpper == <<"0", "1", "2", "3", "4", "5", "6", "7", "8", "9", "A", "B", "C", "D", "E", "F">>
WhiteSpace == {" ", "\t", "\n"}

Range(s) == {s[i] : i \in 1..Len(s)}

IsDigit(c) == c \in Range(DigitChars)

Min2(a, b) == IF a <= b THEN a ELSE b

Max2(a, b) == IF a >= b THEN a ELSE b

\* String.prototype.startsWith
StartsWith(s, p) == Len(s) >= Len(p) /\ SubSeq(s, 1, Len(p)) = p

\* String.prototype.endsWith
EndsWith(s, p) == Len(s) >= Len(p) /\ SubSeq(s, Len(s) - Len(p) + 1, Len(s)) = p

\* String.prototype.includes
Includes(s, p) == \E i \in 1..(Len(s) - Len(p) + 1) : SubSeq(s, i, i + Len(p) - 1) = p

\* String.prototype.substring(a, b), 0-based, end exclusive, clipped to the length
Substring(s, a, b) == SubSeq(s, Min2(a, Len(s)) + 1, Min2(b, Len(s)))

\* String.prototype.trim
Trim(s) ==
  LET keep == {i \in 1..Len(s) : s[i] \notin WhiteSpace}
  IN IF keep = {} THEN <<>>
     ELSE SubSeq(s, CHOOSE i \in keep : \A j \in keep : i <= j,
                    CHOOSE i \in keep : \A j \in keep : i >= j)

\* replace(/^#/, "")
StripHash(s) == IF StartsWith(s, <<"#">>) THEN Tail(s) ELSE s

\* index after the longest run of characters of cs that starts at i
RunEnd(s, i, cs) ==
  CHOOSE j \in i..(Len(s) + 1) :
    /\ \A k \in i..(j - 1) : s[k] \in cs
    /\ (j = Len(s) + 1 \/ s[j] \notin cs)

\* position (1-based) of character c in the sequence cs, 0 when absent
IndexOf(cs, c) == IF c \in Range(cs) THEN CHOOSE i \in 1..Len(cs) : cs[i] = c ELSE 0

\* value of a hexadecimal digit, -1 for any other character
HexVal(c) ==
  IF c \in Range(HexChars) THEN IndexOf(HexChars, c) - 1
  ELSE IF c \in Range(HexCharsUpper) THEN IndexOf(HexCharsUpper, c) - 1
  ELSE -1

RECURSIVE DigitsValue(_, _)
\* value of a string of digits in the given base
DigitsValue(s, base) ==
  IF s = <<>> THEN 0
  ELSE DigitsValue(SubSeq(s, 1, Len(s) - 1), base) * base + HexVal(s[Len(s)])

RECURSIVE NatToStr(_, _)
\* digits of a natural number in the given base (Number.prototype.toString)
NatToStr(n, base) ==
  IF n < base THEN <<HexChars[n + 1]>>
  ELSE NatToStr(n \div base, base) \o <<HexChars[(n % base) + 1]>>

IntToStr(n, base) == IF n < 0 THEN <<"-">> \o NatToStr(-n, base) ELSE NatToStr(n, base)

\* String.prototype.padStart(2, "0")
PadStart2(s) == IF Len(s) >= 2 THEN s ELSE IF Len(s) = 1 THEN <<"0">> \o s ELSE <<"0", "0">>

\* ----------------------------------------------------------------- numbers
NaN == [n |-> 0, d |-> 0]

IsNaN(x) == x.d = 0

Abs(n) == IF n < 0 THEN -n ELSE n

RECURSIVE GCD(_, _)
GCD(a, b) == IF b = 0 THEN a ELSE GCD(b, a % b)

\* the fraction n/d in lowest terms
Frac(n, d) ==
  IF d = 0 THEN NaN
  ELSE LET g == GCD(Abs(n), Abs(d))
           sg == IF d < 0 THEN -1 ELSE 1
       IN [n |-> (sg * n) \div g, d |-> (sg * d) \div g]

Num(i) == [n |-> i, d |-> 1]

RAdd(x, y) == IF IsNaN(x) \/ IsNaN(y) THEN NaN ELSE Frac(x.n * y.d + y.n * x.d, x.d * y.d)

RSub(x, y) == IF IsNaN(x) \/ IsNaN(y) THEN NaN ELSE Frac(x.n * y.d - y.n * x.d, x.d * y.d)

RMul(x, y) == IF IsNaN(x) \/ IsNaN(y) THEN NaN ELSE Frac(x.n * y.n, x.d * y.d)

RDiv(x, y) == IF IsNaN(x) \/ IsNaN(y) THEN NaN ELSE Frac(x.n * y.d, x.d * y.n)

\* comparisons with NaN are false, as in JavaScript
RLt(x, y) == ~IsNaN(x) /\ ~IsNaN(y) /\ x.n * y.d < y.n * x.d

RGt(x, y) == RLt(y, x)

\* strict equality of numbers (NaN === NaN is false)
REq(x, y) == ~IsNaN(x) /\ ~IsNaN(y) /\ x = y

\* Math.max / Math.min over a non-empty set of numbers
MathMax(S) ==
  IF \E x \in S : IsNaN(x) THEN NaN ELSE CHOOSE x \in S : \A y \in S : ~RLt(x, y)

MathMin(S) ==
  IF \E x \in S : IsNaN(x) THEN NaN ELSE CHOOSE x \in S : \A y \in S : ~RLt(y, x)

\* floor of a fraction
Floor(x) == x.n \div x.d

\* Math.round: the nearest integer, halves rounded up
MathRound(x) == IF IsNaN(x) THEN NaN ELSE Num(Floor(RAdd(x, Frac(1, 2))))

RECURSIVE Pow10(_)
Pow10(k) == IF k = 0 THEN 1 ELSE 10 * Pow10(k - 1)

RECURSIVE StripZeros(_)
StripZeros(s) ==
  IF s # <<>> /\ s[Len(s)] = "0" THEN StripZeros(SubSeq(s, 1, Len(s) - 1)) ELSE s

RECURSIVE PadZeros(_, _)
PadZeros(s, k) == IF Len(s) >= k THEN s ELSE PadZeros(<<"0">> \o s, k)

\* Number-to-string conversion of a template literal: an integer prints as
\* its digits, any other number with a decimal point and its fractional
\* digits (FracDigits of them, where JavaScript prints up to 17).
NumToStr(x) ==
  IF IsNaN(x) THEN <<"N", "a", "N">>
  ELSE LET a == [n |-> Abs(x.n), d |-> x.d]
           ip == Floor(a)
           fr == ((a.n - ip * a.d) * Pow10(FracDigits)) \div a.d
           sign == IF x.n < 0 THEN <<"-">> ELSE <<>>
       IN IF a.d = 1 THEN sign \o NatToStr(ip, 10)
          ELSE sign \o NatToStr(ip, 10) \o <<".">>
               \o StripZeros(PadZeros(NatToStr(fr, 10), FracDigits))

\* parseInt(s, 16): optional white space and sign, optional 0x, then the
\* longest run of hexadecimal digits; NaN when there is none
ParseInt16(s) ==
  LET t == SubSeq(s, RunEnd(s, 1, WhiteSpace), Len(s))
      neg == StartsWith(t, <<"-">>)
      u == IF neg \/ StartsWith(t, <<"+">>) THEN Tail(t) ELSE t
      v == IF StartsWith(u, <<"0", "x">>) \/ StartsWith(u, <<"0", "X">>) THEN SubSeq(u, 3, Len(u)) ELSE u
      hexset == Range(HexChars) \cup Range(HexCharsUpper)
      e == RunEnd(v, 1, hexset)
      val == DigitsValue(SubSeq(v, 1, e - 1), 16)
  IN IF e = 1 THEN NaN ELSE Num(IF neg THEN -val ELSE val)

\* ------------------------------------------------------ colour conversions
\* the 0-255 channel scale of hexToHsl, hslToRgb, rgbToHsl and hslToHex
ChannelMax == 255

\* the switch over max with the red case's "+ (g < b ? 6 : 0)" left out
HueSixth_NoWrap(r, g, b, max, d) ==
  IF REq(max, r) THEN RDiv(RSub(g, b), d)
  ELSE IF REq(max, g) THEN RAdd(RDiv(RSub(b, r), d), Num(2))
  ELSE IF REq(max, b) THEN RAdd(RDiv(RSub(r, g), d), Num(4))
  ELSE Num(0)

\* the branch of the switch over max (first matching case) and the hue it gives
HueSixth(r, g, b, max, d) ==
  IF REq(max, r) THEN RAdd(RDiv(RSub(g, b), d), IF RLt(g, b) THEN Num(6) ELSE Num(0))
  ELSE IF REq(max, g) THEN RAdd(RDiv(RSub(b, r), d), Num(2))
  ELSE IF REq(max, b) THEN RAdd(RDiv(RSub(r, g), d), Num(4))
  ELSE Num(0)

\* the body shared by hexToHsl and rgbToHsl, over channels already divided by 255
ChannelsToHsl(r, g, b) ==
  LET max == MathMax({r, g, b})
      min == MathMin({r, g, b})
      l == RDiv(RAdd(max, min), Num(2))
      d == RSub(max, min)
      chromatic == ~REq(max, min)
      s == IF ~chromatic THEN Num(0)
           ELSE IF RGt(l, Frac(1, 2)) THEN RDiv(d, RSub(RSub(Num(2), max), min))
           ELSE RDiv(d, RAdd(max, min))
      h == IF ~chromatic THEN Num(0) ELSE RDiv(HueSixth(r, g, b, max, d), Num(6))
  IN [h |-> RMul(h, Num(360)), s |-> RMul(s, Num(100)), l |-> RMul(l, Num(100))]

hexToHsl(hex) ==
  LET x == StripHash(hex)
      r == RDiv(ParseInt16(Substring(x, 0, 2)), Num(ChannelMax))
      g == RDiv(ParseInt16(Substring(x, 2, 4)), Num(ChannelMax))
      b == RDiv(ParseInt16(Substring(x, 4, 6)), Num(ChannelMax))
  IN ChannelsToHsl(r, g, b)

rgbToHsl(r, g, b) ==
  ChannelsToHsl(RDiv(r, Num(ChannelMax)), RDiv(g, Num(ChannelMax)), RDiv(b, Num(ChannelMax)))

hue2rgb(p, q, t0) ==
  LET t1 == IF RLt(t0, Num(0)) THEN RAdd(t0, Num(1)) ELSE t0
      t == IF RGt(t1, Num(1)) THEN RSub(t1, Num(1)) ELSE t1
  IN IF RLt(t, Frac(1, 6)) THEN RAdd(p, RMul(RMul(RSub(q, p), Num(6)), t))
     ELSE IF RLt(t, Frac(1, 3)) THEN q
     ELSE IF RLt(t, Frac(1, 2)) THEN RAdd(p, RMul(RMul(RSub(q, p), RSub(Frac(2, 3), t)), Num(6)))
     ELSE p

hslToRgb(h0, s0, l0) ==
  LET h == RDiv(h0, Num(360))
      s == RDiv(s0, Num(100))
      l == RDiv(l0, Num(100))
      q == IF RLt(l, Frac(1, 2)) THEN RMul(l, RAdd(Num(1), s)) ELSE RSub(RAdd(l, s), RMul(l, s))
      p == RSub(RMul(Num(2), l), q)
      r == IF REq(s, Num(0)) THEN l ELSE hue2rgb(p, q, RAdd(h, Frac(1, 3)))
      g == IF REq(s, Num(0)) THEN l ELSE hue2rgb(p, q, h)
      b == IF REq(s, Num(0)) THEN l ELSE hue2rgb(p, q, RSub(h, Frac(1, 3)))
  IN [r |-> MathRound(RMul(r, Num(ChannelMax))),
      g |-> MathRound(RMul(g, Num(ChannelMax))),
      b |-> MathRound(RMul(b, Num(ChannelMax)))]

\* the pattern without its closing "$": text after ")" is let through
MatchTriple_Unanchored(str, word, unit) ==
  LET dg == Range(DigitChars)
      a1 == Len(word) + 1
      a2 == RunEnd(str, a1, dg)
      b0 == a2 + 1
      b1 == RunEnd(str, b0, WhiteSpace)
      b2 == RunEnd(str, b1, dg)
      c0 == b2 + Len(unit) + 1
      c1 == RunEnd(str, c0, WhiteSpace)
      c2 == RunEnd(str, c1, dg)
      lit(i, t) == i + Len(t) - 1 <= Len(str) /\ SubSeq(str, i, i + Len(t) - 1) = t
  IN IF /\ StartsWith(str, word)
        /\ a2 > a1
        /\ lit(a2, <<",">>)
        /\ b2 > b1
        /\ lit(b2, unit \o <<",">>)
        /\ c2 > c1
        /\ lit(c2, unit \o <<")">>)
     THEN <<SubSeq(str, a1, a2 - 1), SubSeq(str, b1, b2 - 1), SubSeq(str, c1, c2 - 1)>>
     ELSE <<>>

\* /^<word>(\d+),\s*(\d+)<unit>,\s*(\d+)<unit>\)$/ : the three captured
\* digit strings, or <<>> when the string does not match
MatchTriple(str, word, unit) ==
  LET dg == Range(DigitChars)
      a1 == Len(word) + 1
      a2 == RunEnd(str, a1, dg)
      b0 == a2 + 1
      b1 == RunEnd(str, b0, WhiteSpace)
      b2 == RunEnd(str, b1, dg)
      c0 == b2 + Len(unit) + 1
      c1 == RunEnd(str, c0, WhiteSpace)
      c2 == RunEnd(str, c1, dg)
      lit(i, t) == i + Len(t) - 1 <= Len(str) /\ SubSeq(str, i, i + Len(t) - 1) = t
  IN IF /\ StartsWith(str, word)
        /\ a2 > a1
        /\ lit(a2, <<",">>)
        /\ b2 > b1
        /\ lit(b2, unit \o <<",">>)
        /\ c2 > c1
        /\ lit(c2, unit \o <<")">>)
        /\ c2 + Len(unit) = Len(str)
     THEN <<SubSeq(str, a1, a2 - 1), SubSeq(str, b1, b2 - 1), SubSeq(str, c1, c2 - 1)>>
     ELSE <<>>

parseHslValue(hsl) ==
  LET m == MatchTriple(hsl, <<"h", "s", "l", "(">>, <<"%">>)
  IN IF m = <<>> THEN [h |-> Num(0), s |-> Num(0), l |-> Num(50)]
     ELSE [h |-> Num(DigitsValue(m[1], 10)), s |-> Num(DigitsValue(m[2], 10)),
           l |-> Num(DigitsValue(m[3], 10))]

parseRgbValue(rgb) ==
  LET m == MatchTriple(rgb, <<"r", "g", "b", "(">>, <<>>)
  IN IF m = <<>> THEN [r |-> Num(0), g |-> Num(0), b |-> Num(0)]
     ELSE [r |-> Num(DigitsValue(m[1], 10)), g |-> Num(DigitsValue(m[2], 10)),
           b |-> Num(DigitsValue(m[3], 10))]

\* JavaScript's remainder for a non-negative dividend
RMod(x, m) == RSub(x, Num(m * Floor(RDiv(x, Num(m)))))

\* one channel of hslToHex: f(n), as two hexadecimal digits
hslToHexChannel(n, h, s, l) ==
  LET a == RMul(s, MathMin({l, RSub(Num(1), l)}))
      k == RMod(RAdd(Num(n), RDiv(h, Num(30))), 12)
      m == MathMax({MathMin({RSub(k, Num(3)), RSub(Num(9), k), Num(1)}), Num(-1)})
      color == RSub(l, RMul(a, m))
  IN PadStart2(IntToStr(MathRound(RMul(Num(ChannelMax), color)).n, 16))

\* hslToHex with the green and blue channels in each other's place
hslToHex_SwappedChannels(hsl) ==
  LET m == MatchTriple(hsl, <<"h", "s", "l", "(">>, <<"%">>)
  IN IF m = <<>> THEN <<"#", "0", "0", "0", "0", "0", "0">>
     ELSE LET h == Num(DigitsValue(m[1], 10))
              s == RDiv(Num(DigitsValue(m[2], 10)), Num(100))
              l == RDiv(Num(DigitsValue(m[3], 10)), Num(100))
          IN <<"#">> \o hslToHexChannel(0, h, s, l) \o hslToHexChannel(4, h, s, l)
                   \o hslToHexChannel(8, h, s, l)

hslToHex(hsl) ==
  LET m == MatchTriple(hsl, <<"h", "s", "l", "(">>, <<"%">>)
  IN IF m = <<>> THEN <<"#", "0", "0", "0", "0", "0", "0">>
     ELSE LET h == Num(DigitsValue(m[1], 10))
              s == RDiv(Num(DigitsValue(m[2], 10)), Num(100))
              l == RDiv(Num(DigitsValue(m[3], 10)), Num(100))
          IN <<"#">> \o hslToHexChannel(0, h, s, l) \o hslToHexChannel(8, h, s, l)
                   \o hslToHexChannel(4, h, s, l)

\* ------------------------------------------------------------ the document
VARIABLES
  loaded,       \* lifecycle of the plugin instance: constructed, loaded, unloaded
  data,         \* what saveData last persisted (loadData's result)
  settings,     \* settings.tagColors: tag/color entries in insertion order
  styleSheets,  \* the host's own style sheets, ahead of document.head's blocks
  head,         \* the style elements appended to document.head, in order
  bodyStyle,    \* document.body.style: property name -> value and priority
  lastCall,     \* log of the handler that ran last: what it read and built
  themeHist,    \* the setFileThemeColor / removeFileThemeColor calls so far
  snapshot,     \* the styling surface as the first setFileThemeColor found it
  convIn,       \* colour laws: the hex string under conversion
  convOut       \* colour laws: the result of its conversion, once computed

vars == <<loaded, data, settings, styleSheets, head, bodyStyle, lastCall,
          themeHist, snapshot, convIn, convOut>>

TAG_STYLE_ID == "themed-tags-plugin-style"

THEME_STYLE_ID == "themed-tags-file-theme-color"

ACCENT_H == <<"-", "-", "a", "c", "c", "e", "n", "t", "-", "h">>

ACCENT_S == <<"-", "-", "a", "c", "c", "e", "n", "t", "-", "s">>

\* loadData() before anything was saved: null
NoData == [present |-> FALSE, tagColors |-> <<>>]

SavedData(tagColors) == [present |-> TRUE, tagColors |-> tagColors]

DEFAULT_SETTINGS == <<>>

Decl(name, value, important) == [name |-> name, value |-> value, important |-> important]

StyleRule(kind, arg, decls) == [type |-> "style", sel |-> [kind |-> kind, arg |-> arg], decls |-> decls]

OtherRule(decls) == [type |-> "other", sel |-> [kind |-> "media", arg |-> <<>>], decls |-> decls]

Sheet(accessible, rules) == [accessible |-> accessible, rules |-> rules]

\* the module-level style element of the settings tab (no id)
StaticStyle ==
  [id |-> "",
   rules |-> <<StyleRule("class", <<"t", "a", "g", "-", "l", "i", "s", "t", "-", "c", "o", "n", "t", "a", "i", "n", "e", "r">>,
                 <<Decl(<<"m", "a", "x", "-", "h", "e", "i", "g", "h", "t">>, <<"4", "0", "0", "p", "x">>, FALSE),
                   Decl(<<"o", "v", "e", "r", "f", "l", "o", "w", "-", "y">>, <<"a", "u", "t", "o">>, FALSE)>>),
               StyleRule("attr", <<"i", "n", "p", "u", "t">>,
                 <<Decl(<<"m", "a", "r", "g", "i", "n", "-", "b", "o", "t", "t", "o", "m">>, <<"1", "0", "p", "x">>, FALSE),
                   Decl(<<"p", "a", "d", "d", "i", "n", "g">>, <<"5", "p", "x">>, FALSE),
                   Decl(<<"w", "i", "d", "t", "h">>, <<"1", "0", "0", "%">>, FALSE),
                   Decl(<<"b", "o", "x", "-", "s", "i", "z", "i", "n", "g">>, <<"b", "o", "r", "d", "e", "r", "-", "b", "o", "x">>, FALSE)>>)>>]

\* document.styleSheets: the host's sheets, then the style elements of head
DocumentStyleSheets(base, hd) ==
  base \o [i \in 1..Len(hd) |-> Sheet(TRUE, hd[i].rules)]

RECURSIVE Flatten(_)
Flatten(ss) == IF ss = <<>> THEN <<>> ELSE Head(ss) \o Flatten(Tail(ss))

RECURSIVE Unique(_)
\* the elements of a sequence in order of first occurrence (a Set's order)
Unique(s) ==
  IF s = <<>> THEN <<>>
  ELSE LET r == Unique(SubSeq(s, 1, Len(s) - 1))
       IN IF s[Len(s)] \in Range(r) THEN r ELSE Append(r, s[Len(s)])

\* the declared property names of one sheet, as the loops visit them; reading
\* cssRules of an inaccessible sheet throws and the sheet contributes nothing
SheetNames(sheet) ==
  IF ~sheet.accessible THEN <<>>
  ELSE Flatten([i \in 1..Len(sheet.rules) |->
         IF sheet.rules[i].type = "style"
         THEN [j \in 1..Len(sheet.rules[i].decls) |-> sheet.rules[i].decls[j].name]
         ELSE <<>>])

\* discovery with the try around the whole loop over the sheets: the first
\* inaccessible sheet ends it
getAccentVariables_AbortOnError(sheets) ==
  LET stop == IF \E i \in 1..Len(sheets) : ~sheets[i].accessible
              THEN CHOOSE i \in 1..Len(sheets) :
                     ~sheets[i].accessible /\ \A j \in 1..(i - 1) : sheets[j].accessible
              ELSE Len(sheets) + 1
      names == Flatten([i \in 1..(stop - 1) |-> SheetNames(sheets[i])])
      IsAccent(name) == Includes(name, <<"a", "c", "c", "e", "n", "t">>)
  IN Unique(SelectSeq(names, IsAccent))

getAccentVariables(sheets) ==
  LET names == Flatten([i \in 1..Len(sheets) |-> SheetNames(sheets[i])])
      IsAccent(name) == Includes(name, <<"a", "c", "c", "e", "n", "t">>)
  IN Unique(SelectSeq(names, IsAccent))

\* getComputedStyle(document.documentElement).getPropertyValue(name): the
\* declaration that wins the cascade among the rules that select the root
\* element (an !important one over a normal one, a later over an earlier),
\* as written in the sheet; "" when there is none
ComputedRootValue(sheets, name) ==
  LET all == Flatten([i \in 1..Len(sheets) |->
               Flatten([j \in 1..Len(sheets[i].rules) |->
                 IF sheets[i].rules[j].type = "style" /\ sheets[i].rules[j].sel.kind = "root"
                 THEN sheets[i].rules[j].decls ELSE <<>>])])
      Named(dc) == dc.name = name
      Important(dc) == dc.important
      cand == SelectSeq(all, Named)
      imp == SelectSeq(cand, Important)
  IN IF cand = <<>> THEN <<>>
     ELSE IF imp # <<>> THEN imp[Len(imp)].value
     ELSE cand[Len(cand)].value

getCssVariableValue(sheets, variable) ==
  Trim(ComputedRootValue(sheets, <<"-", "-">> \o variable))

\* ------------------------------------------------------- ThemeColorApplier
\* Branch without the test for an empty value or a "var(" reference
Branch_NoGuard(variable, originalValue) ==
  IF EndsWith(variable, <<"-", "h">>) THEN "h"
  ELSE IF EndsWith(variable, <<"-", "s">>) THEN "s"
  ELSE IF EndsWith(variable, <<"-", "r", "g", "b">>) THEN "rgb"
  ELSE IF StartsWith(originalValue, <<"h", "s", "l", "(">>) THEN "hsl"
  ELSE "skip"

\* which branch of setFileThemeColor's loop body a variable takes
Branch(variable, originalValue) ==
  IF Includes(originalValue, <<"v", "a", "r", "(">>) \/ originalValue = <<>> THEN "guard"
  ELSE IF EndsWith(variable, <<"-", "h">>) THEN "h"
  ELSE IF EndsWith(variable, <<"-", "s">>) THEN "s"
  ELSE IF EndsWith(variable, <<"-", "r", "g", "b">>) THEN "rgb"
  ELSE IF StartsWith(originalValue, <<"h", "s", "l", "(">>) THEN "hsl"
  ELSE "skip"

\* newValue of the loop body, for the branches that compute one
NewValue(variable, originalValue, hslColor) ==
  LET br == Branch(variable, originalValue)
  IN IF br = "h" THEN NumToStr(hslColor.h)
     ELSE IF br = "s" THEN NumToStr(hslColor.s) \o <<"%">>
     ELSE IF br = "rgb" THEN
       LET o == parseRgbValue(originalValue)
           hslParts == rgbToHsl(o.r, o.g, o.b)
           rgbColor == hslToRgb(hslColor.h, hslColor.s, hslParts.l)
       IN <<"r", "g", "b", "(">> \o NumToStr(rgbColor.r) \o <<",", " ">> \o NumToStr(rgbColor.g)
            \o <<",", " ">> \o NumToStr(rgbColor.b) \o <<")">>
     ELSE IF br = "hsl" THEN
       LET hslParts == parseHslValue(originalValue)
       IN <<"h", "s", "l", "(">> \o NumToStr(hslColor.h) \o <<",", " ">> \o NumToStr(hslColor.s)
            \o <<"%", ",", " ">> \o NumToStr(hslParts.l) \o <<"%", ")">>
     ELSE originalValue

\* the declarations one variable adds to the css text: one or none
VariableCss(variable, originalValue, hslColor) ==
  IF Branch(variable, originalValue) \in {"guard", "skip"} THEN <<>>
  ELSE <<Decl(<<"-", "-">> \o variable, NewValue(variable, originalValue, hslColor), TRUE)>>

\* what setFileThemeColor reads: each discovered variable with its root value
ReadVariables(sheets) ==
  LET av == getAccentVariables(sheets)
  IN [i \in 1..Len(av) |-> [variable |-> av[i], value |-> getCssVariableValue(sheets, av[i])]]

\* the declarations of the ":root { ... }" text setFileThemeColor builds
ThemeCss(read, hslColor) ==
  Flatten([i \in 1..Len(read) |-> VariableCss(read[i].variable, read[i].value, hslColor)])

ThemeStyle(css) == [id |-> THEME_STYLE_ID, rules |-> <<StyleRule("root", <<>>, css)>>]

\* style.setProperty(name, value, "important")
SetProperty(style, name, value) ==
  [p \in DOMAIN style \cup {name} |->
     IF p = name THEN [value |-> value, priority |-> "important"] ELSE style[p]]

\* style.removeProperty(name)
RemoveProperty(style, name) == [p \in DOMAIN style \ {name} |-> style[p]]

\* document.getElementById(id): the position of the first element with the
\* id in document order, 0 when there is none
GetElementById(hd, id) ==
  IF \E i \in 1..Len(hd) : hd[i].id = id
  THEN CHOOSE i \in 1..Len(hd) : hd[i].id = id /\ \A j \in 1..(i - 1) : hd[j].id # id
  ELSE 0

\* element.remove()
RemoveAt(hd, i) == SubSeq(hd, 1, i - 1) \o SubSeq(hd, i + 1, Len(hd))

\* head after setFileThemeColor(color)
setFileThemeColorHead(hd, css) == Append(hd, ThemeStyle(css))

\* body style after setFileThemeColor(color)
setFileThemeColorBody(style, hslColor) ==
  SetProperty(SetProperty(style, ACCENT_H, NumToStr(hslColor.h)),
              ACCENT_S, NumToStr(hslColor.s) \o <<"%">>)

\* head after removeFileThemeColor()
removeFileThemeColorHead(hd) ==
  LET i == GetElementById(hd, THEME_STYLE_ID)
  IN IF i # 0 THEN RemoveAt(hd, i) ELSE hd

\* removeFileThemeColor clearing --accent-h alone
removeFileThemeColorBody_KeepS(style) == RemoveProperty(style, ACCENT_H)

\* body style after removeFileThemeColor()
removeFileThemeColorBody(style) == RemoveProperty(RemoveProperty(style, ACCENT_H), ACCENT_S)

\* --------------------------------------------------------- TagColorApplier
\* the rules of the css text applyTagColors builds, one per entry
TagCss(tagColors) ==
  [i \in 1..Len(tagColors) |->
     StyleRule("tag", <<"#">> \o tagColors[i].tag,
               <<Decl(<<"c", "o", "l", "o", "r">>, tagColors[i].color, TRUE)>>)]

\* applyTagColors clearing the other applier's block before appending
applyTagColorsHead_DropsTheme(hd, tagColors) ==
  Append(removeFileThemeColorHead(hd), [id |-> TAG_STYLE_ID, rules |-> TagCss(tagColors)])

\* head after applyTagColors()
applyTagColorsHead(hd, tagColors) == Append(hd, [id |-> TAG_STYLE_ID, rules |-> TagCss(tagColors)])

\* head after removeTagColors()
removeTagColorsHead(hd) ==
  LET i == GetElementById(hd, TAG_STYLE_ID)
  IN IF i # 0 THEN RemoveAt(hd, i) ELSE hd

\* settings.tagColors[tag]: the colour of the entry, "" standing for undefined
TagColor(tagColors, tag) ==
  IF \E i \in 1..Len(tagColors) : tagColors[i].tag = tag
  THEN tagColors[CHOOSE i \in 1..Len(tagColors) : tagColors[i].tag = tag].color
  ELSE <<>>

\* settings.tagColors[tag] = value: an existing key keeps its place
SetTagColor(tagColors, tag, value) ==
  IF \E i \in 1..Len(tagColors) : tagColors[i].tag = tag
  THEN [i \in 1..Len(tagColors) |->
          IF tagColors[i].tag = tag THEN [tag |-> tag, color |-> value] ELSE tagColors[i]]
  ELSE Append(tagColors, [tag |-> tag, color |-> value])

\* ------------------------------------------------------------- environment
\* tags of the vault, as settings keys (getAllTags strips the leading "#")
Tags == {<<"p", "r", "o", "j", "e", "c", "t">>, <<"d", "o", "n", "e">>}

\* values the colour picker hands to onChange
Colors == {<<"#", "f", "f", "0", "0", "0", "0">>, <<"#", "3", "6", "6", "6", "c", "c">>}

Leaf(view, file, tags) == [view |-> view, file |-> file, tags |-> tags]

\* workspace.activeLeaf with the metadata cache's tags of its file
Leaves ==
  {Leaf("none", FALSE, <<>>), Leaf("other", FALSE, <<>>), Leaf("markdown", FALSE, <<>>),
   Leaf("markdown", TRUE, <<>>), Leaf("markdown", TRUE, <<<<"#", "p", "r", "o", "j", "e", "c", "t">>>>),
   Leaf("markdown", TRUE, <<<<"#", "d", "o", "n", "e">>, <<"#", "p", "r", "o", "j", "e", "c", "t">>>>)}

\* a host theme as shipped: the accent properties are declared on body
HostTheme ==
  <<Sheet(TRUE,
      <<StyleRule("body", <<>>,
          <<Decl(<<"-", "-", "a", "c", "c", "e", "n", "t", "-", "h">>, <<"2", "5", "8">>, FALSE),
            Decl(<<"-", "-", "a", "c", "c", "e", "n", "t", "-", "s">>, <<"8", "8", "%">>, FALSE),
            Decl(<<"-", "-", "c", "o", "l", "o", "r", "-", "a", "c", "c", "e", "n", "t">>, <<"h", "s", "l", "(", "2", "5", "8", ",", " ", "8", "8", "%", ",", " ", "6", "6", "%", ")">>, FALSE),
            Decl(<<"-", "-", "i", "n", "t", "e", "r", "a", "c", "t", "i", "v", "e", "-", "a", "c", "c", "e", "n", "t">>, <<"v", "a", "r", "(", "-", "-", "c", "o", "l", "o", "r", "-", "a", "c", "c", "e", "n", "t", ")">>, FALSE)>>)>>)>>

\* a theme whose root scope defines, for discovered names, the property that
\* getCssVariableValue looks up; one sheet is cross-origin
RootTheme ==
  <<Sheet(TRUE,
      <<StyleRule("root", <<>>,
          <<Decl(<<"a", "c", "c", "e", "n", "t", "-", "c", "o", "l", "o", "r">>, <<"a", "u", "t", "o">>, FALSE),
            Decl(<<"-", "-", "a", "c", "c", "e", "n", "t", "-", "c", "o", "l", "o", "r">>, <<" ", "h", "s", "l", "(", "2", "5", "8", ",", " ", "8", "8", "%", ",", " ", "6", "6", "%", ")">>, FALSE),
            Decl(<<"-", "-", "a", "c", "c", "e", "n", "t", "-", "h">>, <<"2", "5", "8">>, FALSE),
            Decl(<<"-", "-", "-", "-", "a", "c", "c", "e", "n", "t", "-", "h">>, <<"2", "5", "8">>, FALSE),
            Decl(<<"-", "-", "a", "c", "c", "e", "n", "t", "-", "s">>, <<"8", "8", "%">>, FALSE),
            Decl(<<"-", "-", "-", "-", "a", "c", "c", "e", "n", "t", "-", "s">>, <<"8", "8", "%">>, FALSE)>>),
        OtherRule(<<Decl(<<"-", "-", "a", "c", "c", "e", "n", "t", "-", "p", "r", "i", "n", "t">>, <<"0">>, FALSE)>>)>>),
    Sheet(FALSE,
      <<StyleRule("root", <<>>, <<Decl(<<"-", "-", "a", "c", "c", "e", "n", "t", "-", "r", "e", "m", "o", "t", "e">>, <<"1">>, FALSE)>>)>>),
    Sheet(TRUE,
      <<StyleRule("root", <<>>,
          <<Decl(<<"-", "-", "a", "c", "c", "e", "n", "t", "-", "r", "g", "b">>, <<"7", "2", ",", " ", "5", "4", ",", " ", "1", "5", "3">>, FALSE),
            Decl(<<"-", "-", "-", "-", "a", "c", "c", "e", "n", "t", "-", "r", "g", "b">>, <<"r", "g", "b", "(", "7", "2", ",", " ", "5", "4", ",", " ", "1", "5", "3", ")">>, FALSE),
            Decl(<<"-", "-", "a", "c", "c", "e", "n", "t", "-", "r", "e", "f", "-", "h">>, <<"2", "5", "8">>, FALSE),
            Decl(<<"-", "-", "-", "-", "a", "c", "c", "e", "n", "t", "-", "r", "e", "f", "-", "h">>, <<"v", "a", "r", "(", "-", "-", "a", "c", "c", "e", "n", "t", "-", "h", ")">>, FALSE)>>)>>)>>

Themes == {HostTheme, RootTheme}

\* inline properties the host keeps on document.body
HostBodyStyle ==
  [p \in {<<"-", "-", "f", "o", "n", "t", "-", "t", "e", "x", "t", "-", "s", "i", "z", "e">>} |-> [value |-> <<"1", "6", "p", "x">>, priority |-> ""]]

\* ----------------------------------------------------------------- actions
NoLeaf == Leaf("none", FALSE, <<>>)

\* the log entry of a handler: the operation that ran last in it, the active
\* leaf it looked at, the colour it was given, the variables it read and the
\* declarations it built
Call(op, leaf, color, read, css) ==
  [op |-> op, leaf |-> leaf, color |-> color, read |-> read, css |-> css]

NoSnapshot == [head |-> <<>>, bodyStyle |-> <<>>]

Init ==
  /\ loaded = "constructed"
  /\ data \in {NoData, SavedData(<<[tag |-> <<"p", "r", "o", "j", "e", "c", "t">>, color |-> <<"#", "3", "6", "6", "6", "c", "c">>]>>)}
  /\ settings = <<>>
  /\ styleSheets \in Themes
  /\ head = <<StaticStyle>>
  /\ bodyStyle = HostBodyStyle
  /\ lastCall = Call("init", NoLeaf, <<>>, <<>>, <<>>)
  /\ themeHist = "fresh"
  /\ snapshot = NoSnapshot
  /\ convIn = <<>>
  /\ convOut = <<>>

\* room for one more style element
CanAppend == Len(head) <= MaxBlocks

\* themeHist after a handler that calls neither theme operation
HistAfterOther == IF themeHist = "fresh" THEN "fresh" ELSE "later"

\* loadSettings' merge of DEFAULT_SETTINGS and the loaded data
loadSettings(d) == IF d.present THEN d.tagColors ELSE DEFAULT_SETTINGS

\* onload: loadSettings, then applyTagColors
OnLoad ==
  /\ loaded = "constructed"
  /\ CanAppend
  /\ loaded' = "loaded"
  /\ settings' = loadSettings(data)
  /\ head' = applyTagColorsHead(head, settings')
  /\ lastCall' = Call("onload", NoLeaf, <<>>, <<>>, <<>>)
  /\ themeHist' = HistAfterOther
  /\ snapshot' = NoSnapshot
  /\ UNCHANGED <<data, styleSheets, bodyStyle, convIn, convOut>>

\* onunload: removeTagColors, then removeFileThemeColor
OnUnload ==
  /\ loaded = "loaded"
  /\ loaded' = "unloaded"
  /\ head' = removeFileThemeColorHead(removeTagColorsHead(head))
  /\ bodyStyle' = removeFileThemeColorBody(bodyStyle)
  /\ lastCall' = Call("onunload", NoLeaf, <<>>, <<>>, <<>>)
  /\ themeHist' = HistAfterOther
  /\ snapshot' = NoSnapshot
  /\ UNCHANGED <<data, settings, styleSheets, convIn, convOut>>

\* the metadata cache's "changed" event: applyTagColors
MetadataChanged ==
  /\ loaded = "loaded"
  /\ CanAppend
  /\ head' = applyTagColorsHead(head, settings)
  /\ lastCall' = Call("changed", NoLeaf, <<>>, <<>>, <<>>)
  /\ themeHist' = HistAfterOther
  /\ snapshot' = NoSnapshot
  /\ UNCHANGED <<loaded, data, settings, styleSheets, bodyStyle, convIn, convOut>>

\* a colour picker's onChange: store, save, applyTagColors
PickerChange(tag, value) ==
  /\ loaded = "loaded"
  /\ CanAppend
  /\ settings' = SetTagColor(settings, tag, value)
  /\ data' = SavedData(settings')
  /\ head' = applyTagColorsHead(head, settings')
  /\ lastCall' = Call("picker", NoLeaf, value, <<>>, <<>>)
  /\ themeHist' = HistAfterOther
  /\ snapshot' = NoSnapshot
  /\ UNCHANGED <<loaded, styleSheets, bodyStyle, convIn, convOut>>

\* applyFileThemeColor with the removal also taken when the view has no file
FileThemeDecision_RemoveWithoutFile(leaf, tagColors) ==
  IF leaf.view = "markdown"
  THEN IF leaf.file /\ Len(leaf.tags) > 0 /\ TagColor(tagColors, StripHash(leaf.tags[1])) # <<>>
       THEN "set" ELSE "remove"
  ELSE "none"

\* what applyFileThemeColor does for the active leaf: "set", "remove" or "none"
FileThemeDecision(leaf, tagColors) ==
  IF leaf.view = "markdown" /\ leaf.file
  THEN IF Len(leaf.tags) > 0 /\ TagColor(tagColors, StripHash(leaf.tags[1])) # <<>>
       THEN "set" ELSE "remove"
  ELSE "none"

\* setFileThemeColor(color), called by applyFileThemeColor for the leaf
SetFileThemeColor(leaf, color) ==
  LET hslColor == hexToHsl(color)
      read == ReadVariables(DocumentStyleSheets(styleSheets, head))
      css == ThemeCss(read, hslColor)
  IN /\ CanAppend
     /\ head' = setFileThemeColorHead(head, css)
     /\ bodyStyle' = setFileThemeColorBody(bodyStyle, hslColor)
     /\ lastCall' = Call("setFileThemeColor", leaf, color, read, css)
     /\ themeHist' = IF themeHist = "fresh" THEN "set" ELSE "later"
     /\ snapshot' = IF themeHist = "fresh" THEN [head |-> head, bodyStyle |-> bodyStyle]
                    ELSE NoSnapshot

\* removeFileThemeColor(), called by applyFileThemeColor for the leaf
RemoveFileThemeColor(leaf) ==
  /\ head' = removeFileThemeColorHead(head)
  /\ bodyStyle' = removeFileThemeColorBody(bodyStyle)
  /\ lastCall' = Call("removeFileThemeColor", leaf, <<>>, <<>>, <<>>)
  /\ themeHist' = IF themeHist = "fresh" THEN "fresh"
                  ELSE IF themeHist = "set" THEN "set-remove" ELSE "later"
  /\ snapshot' = IF themeHist = "set" THEN snapshot ELSE NoSnapshot

\* the workspace's "active-leaf-change" event: applyFileThemeColor
ActiveLeafChange(leaf) ==
  /\ loaded = "loaded"
  /\ LET decision == FileThemeDecision(leaf, settings)
     IN IF decision = "set"
        THEN SetFileThemeColor(leaf, TagColor(settings, StripHash(leaf.tags[1])))
        ELSE IF decision = "remove" THEN RemoveFileThemeColor(leaf)
        ELSE /\ lastCall' = Call("applyFileThemeColor", leaf, <<>>, <<>>, <<>>)
             /\ UNCHANGED <<head, bodyStyle, themeHist, snapshot>>
  /\ UNCHANGED <<loaded, data, settings, styleSheets, convIn, convOut>>

Next ==
  \/ OnLoad
  \/ OnUnload
  \/ MetadataChanged
  \/ \E tag \in Tags, value \in Colors : PickerChange(tag, value)
  \/ \E leaf \in Leaves : ActiveLeafChange(leaf)

Spec == Init /\ [][Next]_vars

\* ------------------------------------------------------------------ claims
\* the style elements of head with the given id, in document order
BlocksWithId(id) == LET Has(el) == el.id = id IN SelectSeq(head, Has)

\* no theme override is in effect: no block, no body-level property
NoThemeOverride ==
  /\ BlocksWithId(THEME_STYLE_ID) = <<>>
  /\ ACCENT_H \notin DOMAIN bodyStyle
  /\ ACCENT_S \notin DOMAIN bodyStyle

\* C1: after a setFileThemeColor call the document holds exactly one style
\* block with the theme identifier, and it is the override that call built
\* from its colour.
C1_OneThemeBlock ==
  lastCall.op = "setFileThemeColor" =>
    BlocksWithId(THEME_STYLE_ID) = <<ThemeStyle(lastCall.css)>>

\* C2: after an applyTagColors call (from onload, a "changed" event or a
\* colour picker) exactly one style block with the tag identifier exists, with
\* one rule per entry of the tag->colour map as of that call.
C2_OneTagBlock ==
  lastCall.op \in {"onload", "changed", "picker"} =>
    BlocksWithId(TAG_STYLE_ID) = <<[id |-> TAG_STYLE_ID, rules |-> TagCss(settings)]>>

\* C3: immediately after a removeFileThemeColor call, from whatever state it
\* was called in (by applyFileThemeColor or by onunload), no theme block is
\* present and neither --accent-h nor --accent-s is set on the body.
C3_RemoveGivesInactive ==
  lastCall.op \in {"removeFileThemeColor", "onunload"} => NoThemeOverride

MissingColorForTag(leaf) ==
  /\ leaf.view = "markdown"
  /\ leaf.file
  /\ (Len(leaf.tags) = 0 \/ TagColor(settings, StripHash(leaf.tags[1])) = <<>>)

\* C5: once an active-leaf-change event was handled for a document whose
\* first tag has no colour (or that has no tags), no theme override exists,
\* however many earlier events applied one.
C5_MissingColorRemovesOverride ==
  (lastCall.op = "removeFileThemeColor" /\ MissingColorForTag(lastCall.leaf))
    => NoThemeOverride

\* the names declared in the style rules of the accessible sheets
DeclaredNames(sheets) == Range(Flatten([i \in 1..Len(sheets) |-> SheetNames(sheets[i])]))

\* C6: the names setFileThemeColor gets from getAccentVariables carry no
\* leading "--": each is a declared custom property containing "accent" with
\* the prefix taken off, so that "--<name>" is the property discovered.
C6_NamesWithoutPrefix ==
  lastCall.op = "setFileThemeColor" =>
    \A i \in 1..Len(lastCall.read) :
      LET name == lastCall.read[i].variable
      IN /\ ~StartsWith(name, <<"-", "-">>)
         /\ Includes(name, <<"a", "c", "c", "e", "n", "t">>)
         /\ (<<"-", "-">> \o name) \in DeclaredNames(DocumentStyleSheets(styleSheets, head))

\* the text of the last component of an "hsl(h, s%, l%)" value: what stands
\* between the last comma and the closing "%)"
LightnessText(value) ==
  LET commas == {i \in 1..Len(value) : value[i] = ","}
      last == CHOOSE i \in commas : \A j \in commas : j <= i
  IN IF commas = {} \/ ~EndsWith(value, <<"%", ")">>) THEN <<>>
     ELSE Trim(SubSeq(value, last + 1, Len(value) - 2))

\* twice the lightness of an "rgb(r, g, b)" value on the 0-255 scale
LightnessSum(value) ==
  LET c == parseRgbValue(value)
  IN MathMax({c.r, c.g, c.b}).n + MathMin({c.r, c.g, c.b}).n

\* the declaration setFileThemeColor emitted for a variable
EmittedFor(css, variable) ==
  LET Is(dc) == dc.name = <<"-", "-">> \o variable IN SelectSeq(css, Is)

\* C7: every variable a setFileThemeColor call rewrote through the hsl(...)
\* branch or the -rgb branch keeps the lightness of its original value (the
\* rgb one up to the rounding of a channel), on every call.
C7_LightnessPreserved ==
  lastCall.op = "setFileThemeColor" =>
    \A i \in 1..Len(lastCall.read) :
      LET r == lastCall.read[i]
          br == Branch(r.variable, r.value)
          out == EmittedFor(lastCall.css, r.variable)[1].value
      IN /\ br = "hsl" => LightnessText(out) = LightnessText(r.value)
         /\ (br = "rgb" /\ MatchTriple(r.value, <<"r", "g", "b", "(">>, <<>>) # <<>>)
              => Abs(LightnessSum(out) - LightnessSum(r.value)) <= 1

\* C8: a setFileThemeColor call puts no declaration into the injected block
\* for a variable whose resolved root value is empty or contains "var(",
\* whatever the variable's suffix.
C8_IndirectionsNeverRewritten ==
  lastCall.op = "setFileThemeColor" =>
    \A i \in 1..Len(lastCall.read) :
      LET r == lastCall.read[i]
      IN (r.value = <<>> \/ Includes(r.value, <<"v", "a", "r", "(">>)) =>
           \A j \in 1..Len(head[Len(head)].rules[1].decls) :
             head[Len(head)].rules[1].decls[j].name # <<"-", "-">> \o r.variable

\* C8 witness: a call read a variable whose value contains "var(", one whose
\* value is empty and one it rewrote, the first two with a rewritable suffix.
C8_Witness ==
  /\ lastCall.op = "setFileThemeColor"
  /\ head[Len(head)] = ThemeStyle(lastCall.css)
  /\ lastCall.css # <<>>
  /\ \E i \in 1..Len(lastCall.read) :
       /\ Includes(lastCall.read[i].value, <<"v", "a", "r", "(">>)
       /\ EndsWith(lastCall.read[i].variable, <<"-", "h">>)
  /\ \E i \in 1..Len(lastCall.read) :
       /\ lastCall.read[i].value = <<>>
       /\ EndsWith(lastCall.read[i].variable, <<"-", "r", "g", "b">>)

\* a non-empty string of decimal digits
IsInteger(str) == str # <<>> /\ \A i \in 1..Len(str) : IsDigit(str[i])

\* C9: for a valid 6-digit hex colour, the replacement of every -h variable
\* and the body-level --accent-h are the new hue as an integer number of
\* degrees with no unit, and the replacement of every -s variable and the
\* body-level --accent-s are the new saturation as a percentage string.
C9_IntegerHue ==
  lastCall.op = "setFileThemeColor" =>
    LET hslColor == hexToHsl(lastCall.color)
    IN /\ IsInteger(bodyStyle[ACCENT_H].value)
       /\ bodyStyle[ACCENT_H].value = NumToStr(hslColor.h)
       /\ bodyStyle[ACCENT_S].value = NumToStr(hslColor.s) \o <<"%">>
       /\ \A i \in 1..Len(lastCall.read) :
            LET r == lastCall.read[i]
                br == Branch(r.variable, r.value)
                out == EmittedFor(lastCall.css, r.variable)[1].value
            IN /\ br = "h" => (IsInteger(out) /\ out = NumToStr(hslColor.h))
               /\ br = "s" => out = NumToStr(hslColor.s) \o <<"%">>

\* ------------------------------------------------------------- colour laws
\* channel values the round trip is run over
ChannelSamples == {0, 2, 23, 124, 125, 128, 228, 230, 255}

\* "#rrggbb" for three channel values
HexOf(r, g, b) ==
  <<"#">> \o PadStart2(IntToStr(r, 16)) \o PadStart2(IntToStr(g, 16)) \o PadStart2(IntToStr(b, 16))

HexInputs == {HexOf(r, g, b) : r \in ChannelSamples, g \in ChannelSamples, b \in ChannelSamples}

\* an HSL value written as "hsl(H, S%, L%)" with each component rounded to
\* the nearest integer, the form hslToHex's pattern accepts
FormatHsl(hsl) ==
  <<"h", "s", "l", "(">> \o NumToStr(MathRound(hsl.h)) \o <<",", " ">> \o NumToStr(MathRound(hsl.s))
    \o <<"%", ",", " ">> \o NumToStr(MathRound(hsl.l)) \o <<"%", ")">>

InitColor ==
  /\ loaded = "constructed"
  /\ data = NoData
  /\ settings = <<>>
  /\ styleSheets = HostTheme
  /\ head = <<StaticStyle>>
  /\ bodyStyle = HostBodyStyle
  /\ lastCall = Call("init", NoLeaf, <<>>, <<>>, <<>>)
  /\ themeHist = "fresh"
  /\ snapshot = NoSnapshot
  /\ convIn \in HexInputs
  /\ convOut = <<>>

\* hexToHsl, then hslToHex on the formatted result
RoundTrip ==
  /\ convOut = <<>>
  /\ convOut' = hslToHex(FormatHsl(hexToHsl(convIn)))
  /\ UNCHANGED <<loaded, data, settings, styleSheets, head, bodyStyle, lastCall,
                 themeHist, snapshot, convIn>>

NextColor == RoundTrip

SpecColor == InitColor /\ [][NextColor]_vars

\* the largest difference between the channels of two "#rrggbb" strings
ChannelDistance(x, y) ==
  LET ch(h, i) == ParseInt16(Substring(StripHash(h), 2 * i, 2 * i + 2)).n
  IN Max2(Abs(ch(x, 0) - ch(y, 0)), Max2(Abs(ch(x, 1) - ch(y, 1)), Abs(ch(x, 2) - ch(y, 2))))

\* C10 as stated: hexToHsl, formatting and hslToHex give back a colour
\* whose channels each differ from the input's by at most 1.
C10_RoundTripWithin1 ==
  convOut # <<>> => (Len(convOut) = 7 /\ ChannelDistance(convIn, convOut) <= 1)

\* C10 as amended: with each HSL component rounded to the nearest integer
\* for the string, the channels each differ from the input's by at most 5.
C10_RoundTripWithin5 ==
  convOut # <<>> => (Len(convOut) = 7 /\ ChannelDistance(convIn, convOut) <= 5)

\* C10 witness: a round trip has run and a channel came back 5 away.
C10_Witness == convOut # <<>> /\ ChannelDistance(convIn, convOut) = 5

\* ------------------------------------------------------- hexToHsl's inputs
\* the longest string of the enumerated malformed colour inputs
MalformedLen == 3

\* the characters the malformed inputs are built from: hexadecimal digits, a
\* letter that is none, and a sign
MalformedChars == {"f", "0", "g", "-"}

\* colour strings that are not six hexadecimal digits: every short string
\* over MalformedChars with and without "#", and longer ones of each kind
\* (a wrong digit, a sign, eight digits, a colour name)
MalformedInputs ==
  LET short == UNION {[1..k -> MalformedChars] : k \in 0..MalformedLen}
  IN short \cup {<<"#">> \o x : x \in short}
       \cup {<<"#", "g", "g", "0", "0", "0", "0">>, <<"#", "-", "f", "0", "0", "0", "0">>, <<"#", "f", "f", "0", "0", "0", "0", "f", "f">>, <<"#", "f", "f", "0", "0">>, <<"#", "f", "f", "0", "0", "f">>, <<"r", "e", "d">>, <<"#", "0", "x", "f", "f", "0", "0">>}

\* six-digit inputs in the other accepted spellings: no "#", upper case
SpelledInputs == {<<"f", "f", "0", "0", "0", "0">>, <<"#", "3", "6", "6", "6", "C", "C">>, <<"3", "6", "6", "6", "c", "c">>, <<"#", "F", "F", "0", "0", "8", "0">>, <<"#", "7", "F", "7", "f", "7", "F">>}

InitHsl ==
  /\ loaded = "constructed"
  /\ data = NoData
  /\ settings = <<>>
  /\ styleSheets = HostTheme
  /\ head = <<StaticStyle>>
  /\ bodyStyle = HostBodyStyle
  /\ lastCall = Call("init", NoLeaf, <<>>, <<>>, <<>>)
  /\ themeHist = "fresh"
  /\ snapshot = NoSnapshot
  /\ convIn \in HexInputs \cup SpelledInputs \cup MalformedInputs
  /\ convOut = <<>>

\* hexToHsl on the string, and rgbToHsl on the three channels parsed from it
ToHsl ==
  /\ convOut = <<>>
  /\ LET x == StripHash(convIn)
         ch(i) == ParseInt16(Substring(x, 2 * i, 2 * i + 2))
     IN convOut' = <<[hex |-> hexToHsl(convIn), rgb |-> rgbToHsl(ch(0), ch(1), ch(2))]>>
  /\ UNCHANGED <<loaded, data, settings, styleSheets, head, bodyStyle, lastCall,
                 themeHist, snapshot, convIn>>

NextHsl == ToHsl

SpecHsl == InitHsl /\ [][NextHsl]_vars

\* exactly six hexadecimal digits after an optional "#"
IsValidHex(hex) ==
  LET x == StripHash(hex)
  IN Len(x) = 6 /\ \A i \in 1..6 : HexVal(x[i]) >= 0

\* every component is a number, h in [0, 360), s and l in [0, 100]
HslInRange(hsl) ==
  /\ ~IsNaN(hsl.h) /\ ~IsNaN(hsl.s) /\ ~IsNaN(hsl.l)
  /\ ~RLt(hsl.h, Num(0)) /\ RLt(hsl.h, Num(360))
  /\ ~RLt(hsl.s, Num(0)) /\ ~RGt(hsl.s, Num(100))
  /\ ~RLt(hsl.l, Num(0)) /\ ~RGt(hsl.l, Num(100))

\* C11: for an input that is not six hexadecimal digits after an optional
\* "#", hexToHsl never returns an HSL value with an undefined or
\* out-of-range component.
C11_MalformedHexFailsSafely ==
  (convOut # <<>> /\ ~IsValidHex(convIn)) => HslInRange(convOut[1].hex)

\* the value of channel i (0, 1, 2) of a six-digit colour string
ChannelValue(hex, i) ==
  LET x == StripHash(hex) IN 16 * HexVal(x[2 * i + 1]) + HexVal(x[2 * i + 2])

AllChannelsEqual(hex) ==
  ChannelValue(hex, 0) = ChannelValue(hex, 1) /\ ChannelValue(hex, 1) = ChannelValue(hex, 2)

\* C13: for a six-digit colour, the results of hexToHsl and of rgbToHsl on
\* its channels have h in [0, 360), s in [0, 100] and l in [0, 100], and
\* h = 0 and s = 0 together exactly when the three channels are equal.
C13_HslInRange ==
  (convOut # <<>> /\ IsValidHex(convIn)) =>
    \A v \in {convOut[1].hex, convOut[1].rgb} :
      /\ HslInRange(v)
      /\ (REq(v.h, Num(0)) /\ REq(v.s, Num(0))) <=> AllChannelsEqual(convIn)

\* C13 witness: a six-digit colour whose red channel is the largest and whose
\* green is below its blue has been converted, and its hue lies past 300.
C13_Witness ==
  /\ convOut # <<>>
  /\ IsValidHex(convIn)
  /\ ChannelValue(convIn, 0) > ChannelValue(convIn, 2)
  /\ ChannelValue(convIn, 2) > ChannelValue(convIn, 1)
  /\ RGt(convOut[1].hex.h, Num(300))

\* ---------------------------------------------------- the parsers' inputs
\* strings around the two patterns: the function word, the first number, the
\* white space after each comma, the unit and the closing text each vary;
\* the second and third numbers are 50 and 40
ParserInputs ==
  {word \o first \o <<",">> \o gap \o <<"5", "0">> \o unit \o <<",">> \o gap \o <<"4", "0">> \o unit \o close :
     word \in {<<"h", "s", "l", "(">>, <<"r", "g", "b", "(">>, <<"h", "s", "l", "a", "(">>, <<"H", "S", "L", "(">>},
     first \in {<<"2", "0", "0">>, <<>>, <<"2", ".", "5">>, <<"-", "1">>, <<"0", "0", "7">>},
     gap \in {<<>>, <<" ">>, <<" ", " ">>},
     unit \in {<<>>, <<"%">>},
     close \in {<<")">>, <<>>, <<")", " ">>, <<")", ";">>}}
    \cup {<<"g", "a", "r", "b", "a", "g", "e">>, <<>>, <<" ", "h", "s", "l", "(", "2", "0", "0", ",", " ", "5", "0", "%", ",", " ", "4", "0", "%", ")">>, <<"h", "s", "l", "(", "2", "0", "0", " ", ",", " ", "5", "0", "%", ",", " ", "4", "0", "%", ")">>,
          <<"h", "s", "l", "(", "2", "0", "0", ",", " ", "5", "0", " ", "%", ",", " ", "4", "0", "%", ")">>, <<"r", "g", "b", "(", "7", "2", ",", " ", "5", "4", ",", " ", "1", "5", "3", ")">>, <<"r", "g", "b", "(", "7", "2", " ", "5", "4", " ", "1", "5", "3", ")">>}

InitParse ==
  /\ loaded = "constructed"
  /\ data = NoData
  /\ settings = <<>>
  /\ styleSheets = HostTheme
  /\ head = <<StaticStyle>>
  /\ bodyStyle = HostBodyStyle
  /\ lastCall = Call("init", NoLeaf, <<>>, <<>>, <<>>)
  /\ themeHist = "fresh"
  /\ snapshot = NoSnapshot
  /\ convIn \in ParserInputs
  /\ convOut = <<>>

\* parseHslValue, parseRgbValue and hslToHex on the string
Parse ==
  /\ convOut = <<>>
  /\ convOut' = <<[hsl |-> parseHslValue(convIn), rgb |-> parseRgbValue(convIn),
                   hex |-> hslToHex(convIn)]>>
  /\ UNCHANGED <<loaded, data, settings, styleSheets, head, bodyStyle, lastCall,
                 themeHist, snapshot, convIn>>

NextParse == Parse

SpecParse == InitParse /\ [][NextParse]_vars

\* the ways str can be cut into word, digits, ",", white space, digits, unit,
\* ",", white space, digits, unit, ")" with nothing before or after: the
\* three numbers of each cut
FormParses(str, word, unit) ==
  LET n == Len(str)
      digits(i, k) == i + k - 1 <= n /\ \A j \in i..(i + k - 1) : str[j] \in Range(DigitChars)
      blanks(i, k) == i + k - 1 <= n /\ \A j \in i..(i + k - 1) : str[j] \in WhiteSpace
      text(i, t) == i + Len(t) - 1 <= n /\ SubSeq(str, i, i + Len(t) - 1) = t
      val(i, k) == DigitsValue(SubSeq(str, i, i + k - 1), 10)
      a == Len(word) + 1
      B(p) == a + p[1] + 1 + p[2]
      C(p) == B(p) + p[3] + Len(unit) + 1
      D(p) == C(p) + p[4]
      S1 == {k \in 1..n : digits(a, k) /\ text(a + k, <<",">>)}
      S2 == UNION {{<<n1, w1>> : w1 \in {k \in 0..n : blanks(a + n1 + 1, k)}} : n1 \in S1}
      S3 == UNION {{<<p[1], p[2], n2>> :
                      n2 \in {k \in 1..n : digits(B(p), k) /\ text(B(p) + k, unit \o <<",">>)}} :
                   p \in S2}
      S4 == UNION {{<<p[1], p[2], p[3], w2>> :
                      w2 \in {k \in 0..n : blanks(C(<<p[1], p[2], p[3]>>), k)}} :
                   p \in S3}
      S5 == UNION {{<<p[1], p[2], p[3], p[4], n3>> :
                      n3 \in {k \in 1..n : /\ digits(D(p), k)
                                          /\ text(D(p) + k, unit \o <<")">>)
                                          /\ D(p) + k + Len(unit) = n}} :
                   p \in S4}
  IN IF ~text(1, word) THEN {}
     ELSE {<<val(a, p[1]), val(B(p), p[3]), val(D(p), p[5])>> : p \in S5}

\* C12: parseHslValue gives the three integers of a string of the form
\* hsl(H, S%, L%) (any white space after the commas) and {h:0, s:0, l:50} for
\* every other string; parseRgbValue gives the three integers of a string of
\* the form rgb(R, G, B) and {r:0, g:0, b:0} for every other string; hslToHex
\* gives "#000000" for every string not of the hsl form.
C12_ParsersTotal ==
  convOut # <<>> =>
    LET hslCuts == FormParses(convIn, <<"h", "s", "l", "(">>, <<"%">>)
        rgbCuts == FormParses(convIn, <<"r", "g", "b", "(">>, <<>>)
        out == convOut[1]
    IN /\ IF hslCuts = {}
          THEN out.hsl = [h |-> Num(0), s |-> Num(0), l |-> Num(50)] /\ out.hex = <<"#", "0", "0", "0", "0", "0", "0">>
          ELSE \A p \in hslCuts : out.hsl = [h |-> Num(p[1]), s |-> Num(p[2]), l |-> Num(p[3])]
       /\ IF rgbCuts = {}
          THEN out.rgb = [r |-> Num(0), g |-> Num(0), b |-> Num(0)]
          ELSE \A p \in rgbCuts : out.rgb = [r |-> Num(p[1]), g |-> Num(p[2]), b |-> Num(p[3])]

\* C12 witness: the parsers have run on a string of the hsl form whose numbers
\* follow the commas directly, and on it parseHslValue gave 200, 50, 40 and
\* parseRgbValue its fallback.
C12_Witness ==
  /\ convOut # <<>>
  /\ convIn = <<"h", "s", "l", "(", "2", "0", "0", ",", "5", "0", "%", ",", "4", "0", "%", ")">>
  /\ convOut[1].hsl = [h |-> Num(200), s |-> Num(50), l |-> Num(40)]
  /\ convOut[1].rgb = [r |-> Num(0), g |-> Num(0), b |-> Num(0)]

\* --------------------------------------------------------------- discovery
\* the property names containing "accent" that the style rules of one sheet declare
AccentNamesOf(sheet) ==
  UNION {{sheet.rules[j].decls[k].name :
            k \in {k \in 1..Len(sheet.rules[j].decls) :
                     Includes(sheet.rules[j].decls[k].name, <<"a", "c", "c", "e", "n", "t">>)}} :
         j \in {j \in 1..Len(sheet.rules) : sheet.rules[j].type = "style"}}

\* the sheets a setFileThemeColor call that has just returned was given: the
\* host's, then the style elements that stood before the one it appended
SheetsBeforeCall == DocumentStyleSheets(styleSheets, SubSeq(head, 1, Len(head) - 1))

\* C14: a sheet whose rules cannot be read does not stop setFileThemeColor,
\* and every property with "accent" in its name that a style rule of an
\* accessible sheet declares, before or after that sheet, is in the result
\* of the discovery.
C14_DiscoverySkipsInaccessible ==
  lastCall.op = "setFileThemeColor" =>
    \A i \in 1..Len(SheetsBeforeCall) :
      SheetsBeforeCall[i].accessible =>
        \A name \in AccentNamesOf(SheetsBeforeCall[i]) :
          \E m \in 1..Len(lastCall.read) : lastCall.read[m].variable = name

\* C14 witness: setFileThemeColor has returned where an inaccessible sheet
\* that declares an accent property stands between two accessible sheets
\* that declare accent properties.
C14_Witness ==
  /\ lastCall.op = "setFileThemeColor"
  /\ \E i \in 2..(Len(styleSheets) - 1) :
       /\ ~styleSheets[i].accessible
       /\ AccentNamesOf(styleSheets[i]) # {}
       /\ \E a \in 1..(i - 1) : styleSheets[a].accessible /\ AccentNamesOf(styleSheets[a]) # {}
       /\ \E b \in (i + 1)..Len(styleSheets) :
            styleSheets[b].accessible /\ AccentNamesOf(styleSheets[b]) # {}

\* ----------------------------------------------------------------- removal
\* C15: removeFileThemeColor called where no theme block exists and no
\* body-level property is set, or called directly after another
\* removeFileThemeColor, changes neither the head nor the body;
\* removeTagColors where no tag block exists changes nothing, and a second
\* removeTagColors changes nothing after the first.
C15_RemovalIdempotent ==
  [][/\ (/\ lastCall'.op = "removeFileThemeColor"
         /\ (NoThemeOverride \/ lastCall.op = "removeFileThemeColor"))
          => (head' = head /\ bodyStyle' = bodyStyle)
     /\ BlocksWithId(TAG_STYLE_ID) = <<>> => removeTagColorsHead(head) = head
     /\ removeTagColorsHead(removeTagColorsHead(head)) = removeTagColorsHead(head)]_vars

\* C16: once onunload has run there is no block with the tag identifier, no
\* block with the theme identifier, and neither "--accent-h" nor "--accent-s"
\* on the body.
C16_TeardownComplete ==
  loaded = "unloaded" => (BlocksWithId(TAG_STYLE_ID) = <<>> /\ NoThemeOverride)

\* ---------------------------------------------------------- re-application
\* C17: when setFileThemeColor is called with a colour directly after a call
\* with the same colour, the declarations it writes are those the first
\* call wrote.
C17_ReapplySameContent ==
  [][(/\ lastCall.op = "setFileThemeColor"
      /\ lastCall'.op = "setFileThemeColor"
      /\ lastCall'.color = lastCall.color)
       => lastCall'.css = lastCall.css]_vars

\* ------------------------------------------------------------------ frames
\* the style elements of hd that carry the identifier
BlocksOf(hd, id) == LET Has(el) == el.id = id IN SelectSeq(hd, Has)

\* C18: a step of applyTagColors (onload, a "changed" event, a picker change)
\* leaves the theme blocks and the body's properties as they were; a step of
\* setFileThemeColor or removeFileThemeColor leaves the tag blocks as they
\* were; removeTagColors leaves the theme blocks as they were, and in
\* onunload each removal takes away only blocks of its own identifier.
C18_AppliersIndependent ==
  [][/\ lastCall'.op \in {"onload", "changed", "picker"}
          => /\ BlocksOf(head', THEME_STYLE_ID) = BlocksOf(head, THEME_STYLE_ID)
             /\ bodyStyle' = bodyStyle
     /\ lastCall'.op \in {"setFileThemeColor", "removeFileThemeColor"}
          => BlocksOf(head', TAG_STYLE_ID) = BlocksOf(head, TAG_STYLE_ID)
     /\ BlocksOf(removeTagColorsHead(head), THEME_STYLE_ID) = BlocksOf(head, THEME_STYLE_ID)
     /\ lastCall'.op = "onunload"
          => /\ BlocksOf(head', TAG_STYLE_ID) = BlocksOf(removeTagColorsHead(head), TAG_STYLE_ID)
             /\ BlocksOf(head', THEME_STYLE_ID)
                  = BlocksOf(removeFileThemeColorHead(head), THEME_STYLE_ID)]_vars

\* C18 witness: a picker change has re-applied the tag colours while a theme
\* block and the body-level "--accent-h" were in place, next to an earlier
\* tag block.
C18_Witness ==
  /\ lastCall.op = "picker"
  /\ BlocksWithId(THEME_STYLE_ID) # <<>>
  /\ ACCENT_H \in DOMAIN bodyStyle
  /\ Len(BlocksWithId(TAG_STYLE_ID)) >= 2

\* C19: an active-leaf-change handled with no active leaf, with a view that
\* is not a markdown view, or with a markdown view that has no file changes
\* neither the head nor the body's properties.
C19_NoFileNoChange ==
  [][(/\ lastCall'.op \in {"applyFileThemeColor", "setFileThemeColor", "removeFileThemeColor"}
      /\ (lastCall'.leaf.view # "markdown" \/ ~lastCall'.leaf.file))
       => (head' = head /\ bodyStyle' = bodyStyle)]_vars

\* C19 witness: a leaf change with a markdown view that has no file has been
\* handled while a theme block and the body-level "--accent-h" were in place.
C19_Witness ==
  /\ lastCall.op = "applyFileThemeColor"
  /\ lastCall.leaf.view = "markdown"
  /\ ~lastCall.leaf.file
  /\ BlocksWithId(THEME_STYLE_ID) # <<>>
  /\ ACCENT_H \in DOMAIN bodyStyle

====
